---- MODULE Spec2Model ----
(***************************************************************************)
(* p3d2gmsh: conversion of a multi-block structured grid (P3DfmtFile) and  *)
(* a neutral map file (NeutralMapFile) into a Gmsh mesh (GmshFile).        *)
(*                                                                         *)
(* The state is that of one GmshFile (node list, element list, group list, *)
(* element-id counter), the grid and map file it consumes, the position of *)
(* GmshFile.consume inside its two loops, and the position of main()       *)
(* inside its loop over the input files.                                   *)
(***************************************************************************)
EXTENDS Integers, Sequences, FiniteSets, TLC

\* ------------------------------------------------------------------ bounds
MaxBlocks == 2      \* blocks per grid
MaxExt    == 3      \* extent of a block along each logical axis
MaxRecs   == 2      \* retained boundary records per map file
MaxRange  == 3      \* largest start / end index in a boundary record
MaxFiles  == 2      \* input files on main's command line

VARIABLES
    coords,       \* P3DfmtFile.__coords: per block the shape <<di, dj, dk>> of its arrays
    nrecs,        \* len(NeutralMapFile.boundaries)
    boundaries,   \* the records of NeutralMapFile.boundaries consume has iterated over
    nodes,        \* GmshFile.__nodes
    elements,     \* GmshFile.__elements
    groups,       \* GmshFile.__groups
    element_id,   \* GmshFile.__element_id
    blkn,         \* consume: number of blocks already consumed (loop variable blkn)
    pc,           \* position of consume: "idle", "init", "blocks", "bdry", "done", "error"
    err,          \* the exception consume raised, "none" if none
    call,         \* arguments of the last direct _p3d_node_id call
    ret,          \* its outcome: <<"ok", id>> or <<"IndexError">>
    mainpc,       \* position of main: "direct" (main not running), "loop", "load",
                  \* "map", "gmsh", "consume", "exit", "aborted"
    fidx,         \* main: index of the current file in args.files
    nfiles,       \* main: len(args.files)
    written       \* main: what gmsh.save has written, one entry per call

vars == <<coords, nrecs, boundaries, nodes, elements, groups, element_id,
          blkn, pc, err, call, ret, mainpc, fidx, nfiles, written>>

gmshVars == <<nodes, elements, groups, element_id>>
callVars == <<call, ret>>
mainVars == <<mainpc, fidx, nfiles, written>>

\* ------------------------------------------------------------------ inputs
\* Shapes of the coordinate arrays of a block.
Shapes == (1..MaxExt) \X (1..MaxExt) \X (1..MaxExt)

\* The shape of the block that follows a block of shape s in the grids explored:
\* the axes are rotated and one extent changes, so that consecutive blocks
\* differ in shape and in node count.
FollowingShape(s) == <<s[3], (s[1] % MaxExt) + 1, s[2]>>

RECURSIVE GridFrom(_, _)
GridFrom(s, n) == IF n = 0 THEN <<>> ELSE <<s>> \o GridFrom(FollowingShape(s), n - 1)

\* The grids explored: 1..MaxBlocks blocks, the first of any shape.
Grids == {GridFrom(s, n) : s \in Shapes, n \in 1..MaxBlocks}

\* ------------------------------------------------------------------ Python helpers
\* xrange(a, b) as a sequence: a, a+1, ..., b-1 (empty when a >= b).
XRange(a, b) == [p \in 1..(IF b > a THEN b - a ELSE 0) |-> a + p - 1]

\* Python list indexing lst[n]: negative n counts from the end; IndexError outside.
ListIndexOk(lst, n) == (0 - Len(lst)) <= n /\ n < Len(lst)
ListAt(lst, n) == IF n >= 0 THEN lst[n + 1] ELSE lst[Len(lst) + n + 1]

\* Two nested for-loops, outer over the sequence os, inner over the sequence
\* is: the loop body runs LoopLen(os, is) times, and on its p-th run the loop
\* variables are OuterAt(os, is, p) and InnerAt(os, is, p).
LoopLen(os, is) == Len(os) * Len(is)
OuterAt(os, is, p) == os[((p - 1) \div Len(is)) + 1]
InnerAt(os, is, p) == is[((p - 1) % Len(is)) + 1]

Product(shape) == shape[1] * shape[2] * shape[3]

\* ------------------------------------------------------------------ GmshFile._p3d_node_id
\* sum of di*dj*dk over coords[0..n-1] (the loop `for idx in xrange(n)`).
RECURSIVE BaseSum(_, _)
BaseSum(c, n) == IF n <= 0 THEN 0 ELSE BaseSum(c, n - 1) + Product(c[n])

\* TRUE when _p3d_node_id(p3dfmt_file, n, ...) raises IndexError: the explicit
\* check n >= nblocks, or coords[n] with n < -nblocks.
P3dNodeIdRaises(c, n) == n >= Len(c) \/ ~ListIndexOk(c, n)

P3dNodeIdBadFlatten(c, n, i, j, k) ==
    LET basen == 1 + (IF Len(c) > 1 THEN BaseSum(c, n) ELSE 0)
        dj == ListAt(c, n)[2]
        dk == ListAt(c, n)[3]
    IN  basen + k + dj * j + dk * dj * i

\* The id _p3d_node_id returns when it does not raise.
P3dNodeId(c, n, i, j, k) ==
    LET basen == 1 + (IF Len(c) > 1 THEN BaseSum(c, n) ELSE 0)
        dj == ListAt(c, n)[2]
        dk == ListAt(c, n)[3]
    IN  basen + k + dk * j + dk * dj * i

\* ------------------------------------------------------------------ GmshFile.get_next_element_id
GetNextElementIdSkips(eid) == eid + 2

GetNextElementId(eid) == eid + 1

\* Runs the body "el_id = self.get_next_element_id(); ...; self.__elements.append(
\* [el_id, type, 2, gid, -1] + conn)" once per connectivity of conns, in order.
\* st = [els |-> element list, eid |-> counter].
RECURSIVE Emit(_, _, _, _)
Emit(st, conns, type, gid) ==
    IF conns = <<>> THEN st
    ELSE LET el_id == GetNextElementId(st.eid)
         IN  Emit([els |-> Append(st.els, <<el_id, type, 2, gid, -1>> \o Head(conns)),
                   eid |-> el_id],
                  Tail(conns), type, gid)

\* ------------------------------------------------------------------ GmshFile._consume_block
\* "Filling nodes list": for i, for j, for k, the tuple (node_id, x[i,j,k],
\* y[i,j,k], z[i,j,k]); the three coordinates are modelled by the place
\* <<n, i, j, k>> they are read from.
BlockNodes(c, n) ==
    LET dj == c[n + 1][2]
        dk == c[n + 1][3]
    IN  [p \in 1..Product(c[n + 1]) |->
            LET i == (p - 1) \div (dj * dk)
                j == ((p - 1) \div dk) % dj
                k == (p - 1) % dk
            IN  <<P3dNodeId(c, n, i, j, k), n, i, j, k>>]

ShiftsSwapped ==
    << <<0, -1, -1>>, <<0, 0, -1>>, <<0, -1, 0>>, <<0, 0, 0>>,
       <<1, -1, -1>>, <<1, 0, -1>>, <<1, -1, 0>>, <<1, 0, 0>> >>

\* The table `shifts` of _consume_block.
Shifts ==
    << <<0, -1, -1>>, <<0, 0, -1>>, <<0, 0, 0>>, <<0, -1, 0>>,
       <<1, -1, -1>>, <<1, 0, -1>>, <<1, 0, 0>>, <<1, -1, 0>> >>

\* "Generating 3D elements": the connectivities in loop order, j outer, k inner.
BlockHexes(c, n) ==
    LET jdim == c[n + 1][2]
        kdim == c[n + 1][3]
        Conn(j, k) == [q \in 1..Len(Shifts) |->
                          P3dNodeId(c, n, Shifts[q][1], j + Shifts[q][2], k + Shifts[q][3])]
        js == XRange(1, jdim)
        ks == XRange(1, kdim)
    IN  [p \in 1..LoopLen(js, ks) |-> Conn(OuterAt(js, ks, p), InnerAt(js, ks, p))]

\* ------------------------------------------------------------------ GmshFile._next_group_id
RECURSIVE MaxGroupId(_)
MaxGroupId(gs) ==
    IF Len(gs) = 1 THEN gs[1][2]
    ELSE LET m == MaxGroupId(Tail(gs))
         IN  IF gs[1][2] >= m THEN gs[1][2] ELSE m

NextGroupIdStale(gs) == MaxGroupId(gs)

\* max(self.__groups, key=lambda n: n[1])[1] + 1 (the group list is not empty
\* when consume calls it).
NextGroupId(gs) == MaxGroupId(gs) + 1

\* ------------------------------------------------------------------ GmshFile._gen_boundary
\* A boundary record is the tuple (label, block number, face id, s1, e1, s2, e2).
\* The name of its group: 'b{0:d}-{1}'.format(gid, bdry[0]).
GroupName(gid, label) == "b" \o ToString(gid) \o "-" \o label

FaceQuadsRangesAsIJ(c, n, face, s1, e1, s2, e2) ==
    LET shape == ListAt(c, n)
        imax == shape[1] - 1
        jmax == shape[2] - 1
        kmax == shape[3] - 1
        R1 == XRange(s1 - 1, e1 - 1)
        R2 == XRange(s2 - 1, e2 - 1)
        KFace(kk) == LET Q(j, i) == <<P3dNodeId(c, n, i, j, kk), P3dNodeId(c, n, i + 1, j, kk),
                                      P3dNodeId(c, n, i + 1, j + 1, kk), P3dNodeId(c, n, i, j + 1, kk)>>
                     IN  [p \in 1..LoopLen(R2, R1) |-> Q(OuterAt(R2, R1, p), InnerAt(R2, R1, p))]
        IFace(ii) == LET Q(k, j) == <<P3dNodeId(c, n, ii, j, k), P3dNodeId(c, n, ii, j + 1, k),
                                      P3dNodeId(c, n, ii, j + 1, k + 1), P3dNodeId(c, n, ii, j, k + 1)>>
                     IN  [p \in 1..LoopLen(R2, R1) |-> Q(OuterAt(R2, R1, p), InnerAt(R2, R1, p))]
        JFace(jj) == LET Q(k, i) == <<P3dNodeId(c, n, i, jj, k), P3dNodeId(c, n, i + 1, jj, k),
                                      P3dNodeId(c, n, i + 1, jj, k + 1), P3dNodeId(c, n, i, jj, k + 1)>>
                     IN  [p \in 1..LoopLen(R2, R1) |-> Q(OuterAt(R2, R1, p), InnerAt(R2, R1, p))]
    IN  CASE face = 1 -> KFace(0)
          [] face = 2 -> KFace(kmax)
          [] face = 3 -> IFace(0)
          [] face = 4 -> IFace(imax)
          [] face = 5 -> JFace(0)
          [] face = 6 -> JFace(jmax)

\* The connectivities (n1, n2, n3, n4) of the quadrilaterals of one record, in
\* the order the branch `bdry[2] == face` appends them; face is in 1..6 and
\* coords[n] exists.
FaceQuads(c, n, face, s1, e1, s2, e2) ==
    LET shape == ListAt(c, n)
        imax == shape[1] - 1
        jmax == shape[2] - 1
        kmax == shape[3] - 1
        R1 == XRange(s1 - 1, e1 - 1)
        R2 == XRange(s2 - 1, e2 - 1)
        \* faces 1, 2: for j in xrange(s2-1, e2-1): for i in xrange(s1-1, e1-1)
        KFace(kk) == LET Q(j, i) == <<P3dNodeId(c, n, i, j, kk), P3dNodeId(c, n, i + 1, j, kk),
                                      P3dNodeId(c, n, i + 1, j + 1, kk), P3dNodeId(c, n, i, j + 1, kk)>>
                     IN  [p \in 1..LoopLen(R2, R1) |-> Q(OuterAt(R2, R1, p), InnerAt(R2, R1, p))]
        \* faces 3, 4: for k in xrange(s2-1, e2-1): for j in xrange(s1-1, e1-1)
        IFace(ii) == LET Q(k, j) == <<P3dNodeId(c, n, ii, j, k), P3dNodeId(c, n, ii, j + 1, k),
                                      P3dNodeId(c, n, ii, j + 1, k + 1), P3dNodeId(c, n, ii, j, k + 1)>>
                     IN  [p \in 1..LoopLen(R2, R1) |-> Q(OuterAt(R2, R1, p), InnerAt(R2, R1, p))]
        \* faces 5, 6: for i in xrange(s2-1, e2-1): for k in xrange(s1-1, e1-1)
        JFace(jj) == LET Q(i, k) == <<P3dNodeId(c, n, i, jj, k), P3dNodeId(c, n, i + 1, jj, k),
                                      P3dNodeId(c, n, i + 1, jj, k + 1), P3dNodeId(c, n, i, jj, k + 1)>>
                     IN  [p \in 1..LoopLen(R2, R1) |-> Q(OuterAt(R2, R1, p), InnerAt(R2, R1, p))]
    IN  CASE face = 1 -> KFace(0)
          [] face = 2 -> KFace(kmax)
          [] face = 3 -> IFace(0)
          [] face = 4 -> IFace(imax)
          [] face = 5 -> JFace(0)
          [] face = 6 -> JFace(jmax)

\* The face ids _gen_boundary has a branch for.
ValidFace(face) == face \in 1..6

\* ------------------------------------------------------------------ GmshFile.consume
\* A fresh GmshFile(): empty lists, counter 0.
FreshGmsh ==
    /\ nodes = <<>>
    /\ elements = <<>>
    /\ groups = <<>>
    /\ element_id = 0

\* Where consume goes when the loop over the blocks has run n blocks, and when
\* the loop over the records has run r records.
AfterBlock(n) ==
    IF n < Len(coords) THEN "blocks" ELSE IF nrecs > 0 THEN "bdry" ELSE "done"
AfterRecord(r) == IF r < nrecs THEN "bdry" ELSE "done"

\* self.__groups.append((3, 1, 'mesh'))
ConsumeStart ==
    /\ pc = "init"
    /\ groups' = Append(groups, <<3, 1, "mesh">>)
    /\ pc' = AfterBlock(0)
    /\ UNCHANGED <<coords, nrecs, boundaries, nodes, elements, element_id, blkn, err>>
    /\ UNCHANGED callVars
    /\ UNCHANGED mainVars

\* One iteration of `for blkn in xrange(p3dfmt_file.nblocks)`: the whole of
\* _consume_block(p3dfmt_file, blkn).
ConsumeBlock ==
    /\ pc = "blocks"
    /\ blkn < Len(coords)
    /\ LET st == Emit([els |-> elements, eid |-> element_id],
                      BlockHexes(coords, blkn), 5, 1)
       IN  /\ nodes' = nodes \o BlockNodes(coords, blkn)
           /\ elements' = st.els
           /\ element_id' = st.eid
    /\ blkn' = blkn + 1
    /\ pc' = AfterBlock(blkn + 1)
    /\ UNCHANGED <<coords, nrecs, boundaries, groups, err>>
    /\ UNCHANGED callVars
    /\ UNCHANGED mainVars

\* _gen_boundary(p3df, bdry) on the GmshFile.
GenBoundaryCall(bdry) ==
    LET gid  == NextGroupId(groups)
        nb   == <<2, gid, GroupName(gid, bdry[1])>>
        n    == bdry[2] - 1
    IN  /\ groups' = Append(groups, nb)
        /\ IF ~ListIndexOk(coords, n)
           THEN \* blk = p3df.coords[blkn] raises IndexError
                /\ pc' = "error"
                /\ err' = "IndexError"
                /\ UNCHANGED <<elements, element_id>>
           ELSE IF ~ValidFace(bdry[3])
           THEN \* raise ValueError('Unknown block face identifier.')
                /\ pc' = "error"
                /\ err' = "ValueError"
                /\ UNCHANGED <<elements, element_id>>
           ELSE LET st == Emit([els |-> elements, eid |-> element_id],
                               FaceQuads(coords, n, bdry[3], bdry[4], bdry[5],
                                         bdry[6], bdry[7]),
                               3, gid)
                IN  /\ elements' = st.els
                    /\ element_id' = st.eid
                    /\ pc' = AfterRecord(Len(boundaries) + 1)
                    /\ err' = err

\* One iteration of `for bdry in mapfile.boundaries`, for the next record of
\* the map file, one of recs.
GenBoundary(recs) ==
    /\ pc = "bdry"
    /\ Len(boundaries) < nrecs
    /\ \E bdry \in recs :
          /\ boundaries' = Append(boundaries, bdry)
          /\ GenBoundaryCall(bdry)
    /\ UNCHANGED <<coords, nrecs, nodes, blkn>>
    /\ UNCHANGED callVars
    /\ UNCHANGED mainVars

\* ------------------------------------------------------------------ map files explored
Labels == {"wall"}

\* Records of the map files consume is run on: every face of the first block,
\* two faces of the last block, a record naming block 0, a record naming a
\* block past the last one, and a record with an unknown face id.
MapRecords(c) ==
    {<<"wall", 1, f, 1, MaxRange, 1, 2>> : f \in 1..6}
    \cup {<<"wall", Len(c), f, 1, 2, 1, 2>> : f \in {2, 5}}
    \cup {<<"wall", 0, 3, 1, 2, 1, 2>>,
          <<"wall", Len(c) + 1, 2, 1, 2, 1, 2>>,
          <<"wall", 1, 7, 1, 2, 1, 2>>}

\* Index ranges (start, end) of a record.
Ranges == {<<s, e>> : s \in 1..2, e \in 1..MaxRange}

\* Records of the single-record map files: any block number from -1 to one
\* past the last block, any face id from 0 to 7, any two ranges.
FaceRecords(c) ==
    {<<l, b, f, r1[1], r1[2], r2[1], r2[2]>> :
        l \in Labels, b \in (0 - 1)..(Len(c) + 1), f \in 0..7, r1 \in Ranges, r2 \in Ranges}

\* ------------------------------------------------------------------ a direct call of _p3d_node_id
CallNodeId ==
    /\ pc = "idle"
    /\ mainpc = "direct"
    /\ call = <<>>
    /\ \E n \in (0 - (MaxBlocks + 1))..MaxBlocks, i \in 0..(MaxExt - 1),
          j \in 0..(MaxExt - 1), k \in 0..(MaxExt - 1) :
          /\ call' = <<n, i, j, k>>
          /\ ret' = IF P3dNodeIdRaises(coords, n)
                    THEN <<"IndexError">>
                    ELSE <<"ok", P3dNodeId(coords, n, i, j, k)>>
    /\ UNCHANGED <<coords, nrecs, boundaries, blkn, pc, err>>
    /\ UNCHANGED gmshVars
    /\ UNCHANGED mainVars

\* ------------------------------------------------------------------ main
\* Grids and records of the files main converts.
MainRecords(c) ==
    {<<"wall", 1, 1, 1, 2, 1, 2>>,
     <<"wall", Len(c) + 1, 1, 1, 2, 1, 2>>,
     <<"wall", 1, 0, 1, 2, 1, 2>>}

\* `for fn in args.files` is exhausted: main returns.
MainExit ==
    /\ mainpc = "loop"
    /\ fidx > nfiles
    /\ mainpc' = "exit"
    /\ UNCHANGED <<coords, nrecs, boundaries, blkn, pc, err, fidx, nfiles, written>>
    /\ UNCHANGED gmshVars
    /\ UNCHANGED callVars

\* not os.path.exists(fn): print "Skipping." and continue.
MainSkip ==
    /\ mainpc = "loop"
    /\ fidx <= nfiles
    /\ fidx' = fidx + 1
    /\ UNCHANGED <<coords, nrecs, boundaries, blkn, pc, err, mainpc, nfiles, written>>
    /\ UNCHANGED gmshVars
    /\ UNCHANGED callVars

\* p3d.load(fn); nmf = NeutralMapFile(mapfile); gmsh = GmshFile(): the grid
\* and the map file are read, and a fresh GmshFile is constructed.
MainPrepare ==
    /\ mainpc = "loop"
    /\ fidx <= nfiles
    /\ \E g \in Grids, r \in 0..MaxRecs :
          /\ coords' = g
          /\ nrecs' = r
    /\ boundaries' = <<>>
    /\ nodes' = <<>>
    /\ elements' = <<>>
    /\ groups' = <<>>
    /\ element_id' = 0
    /\ blkn' = 0
    /\ pc' = "init"
    /\ err' = "none"
    /\ mainpc' = "consume"
    /\ UNCHANGED <<fidx, nfiles, written>>
    /\ UNCHANGED callVars

\* p3d.load(fn) or NeutralMapFile(mapfile) raises (unsupported platform, a
\* missing or malformed map file): the exception leaves main.
MainLoadFails ==
    /\ mainpc = "loop"
    /\ fidx <= nfiles
    /\ mainpc' = "aborted"
    /\ UNCHANGED <<coords, nrecs, boundaries, blkn, pc, err, fidx, nfiles, written>>
    /\ UNCHANGED gmshVars
    /\ UNCHANGED callVars

\* gmsh.consume raised: nothing in main catches it.
MainConsumeFails ==
    /\ mainpc = "consume"
    /\ pc = "error"
    /\ mainpc' = "aborted"
    /\ UNCHANGED <<coords, nrecs, boundaries, blkn, pc, err, fidx, nfiles, written>>
    /\ UNCHANGED gmshVars
    /\ UNCHANGED callVars

SaveReachedEarly == mainpc = "consume" /\ pc \in {"bdry", "done", "error"}

\* main reaches gmsh.save(outputfile): the statement after consume returned.
SaveReached == mainpc = "consume" /\ pc = "done"

\* gmsh.save(outputfile), then the next file. An entry of written records the
\* file and whether the mesh written held every block and every record.
MainSave ==
    /\ SaveReached
    /\ written' = Append(written,
                         [file |-> fidx,
                          complete |-> /\ blkn = Len(coords)
                                       /\ Len(boundaries) = nrecs
                                       /\ err = "none"])
    /\ fidx' = fidx + 1
    /\ mainpc' = "loop"
    /\ UNCHANGED <<coords, nrecs, boundaries, blkn, pc, err, nfiles>>
    /\ UNCHANGED gmshVars
    /\ UNCHANGED callVars

\* ------------------------------------------------------------------ specifications
Quiet ==
    /\ boundaries = <<>>
    /\ blkn = 0
    /\ err = "none"
    /\ call = <<>>
    /\ ret = <<"none">>
    /\ written = <<>>

\* GmshFile().consume(p3d, mapfile) on a grid and a map file of up to MaxRecs records.
Init ==
    /\ coords \in Grids
    /\ nrecs \in 0..MaxRecs
    /\ FreshGmsh
    /\ pc = "init"
    /\ mainpc = "direct" /\ fidx = 0 /\ nfiles = 0
    /\ Quiet

Next ==
    \/ ConsumeStart
    \/ ConsumeBlock
    \/ GenBoundary(MapRecords(coords))

Spec == Init /\ [][Next]_vars

\* GmshFile().consume(p3d, mapfile) on a map file of one record.
InitFace ==
    /\ coords \in Grids
    /\ nrecs = 1
    /\ FreshGmsh
    /\ pc = "init"
    /\ mainpc = "direct" /\ fidx = 0 /\ nfiles = 0
    /\ Quiet

NextFace ==
    \/ ConsumeStart
    \/ ConsumeBlock
    \/ GenBoundary(FaceRecords(coords))

SpecFace == InitFace /\ [][NextFace]_vars

\* Direct calls of the static method _p3d_node_id on a grid.
InitIdx ==
    /\ coords \in Grids
    /\ nrecs = 0
    /\ FreshGmsh
    /\ pc = "idle"
    /\ mainpc = "direct" /\ fidx = 0 /\ nfiles = 0
    /\ Quiet

NextIdx == CallNodeId

SpecIdx == InitIdx /\ [][NextIdx]_vars

\* main() on a command line of 1..MaxFiles files.
InitMain ==
    /\ coords = <<>>
    /\ nrecs = 0
    /\ FreshGmsh
    /\ pc = "idle"
    /\ mainpc = "loop" /\ fidx = 1 /\ nfiles \in 1..MaxFiles
    /\ Quiet

NextMain ==
    \/ MainExit
    \/ MainSkip
    \/ MainPrepare
    \/ MainLoadFails
    \/ ConsumeStart
    \/ ConsumeBlock
    \/ GenBoundary(MainRecords(coords))
    \/ MainConsumeFails
    \/ MainSave

SpecMain == InitMain /\ [][NextMain]_vars

\* ------------------------------------------------------------------ properties
\* Number of nodes of the blocks before block b (0-based), and the id range of block b.
RECURSIVE NodesBefore(_, _)
NodesBefore(c, b) == IF b = 0 THEN 0 ELSE NodesBefore(c, b - 1) + Product(c[b])
BlockLo(c, b) == NodesBefore(c, b) + 1
BlockHi(c, b) == NodesBefore(c, b + 1)

\* The in-bounds positions (i, j, k) of block b.
InBounds(c, b) == (0..(c[b + 1][1] - 1)) \X (0..(c[b + 1][2] - 1)) \X (0..(c[b + 1][3] - 1))

\* Number of hexahedra _consume_block is to emit for the blocks before block b.
RECURSIVE HexesBefore(_, _)
HexesBefore(c, b) ==
    IF b = 0 THEN 0 ELSE HexesBefore(c, b - 1) + (c[b][2] - 1) * (c[b][3] - 1)

\* The node ids an element references, and the ids of the node list.
Connectivity(el) == {el[q] : q \in 6..Len(el)}
NodeIds == {nodes[p][1] : p \in 1..Len(nodes)}

\* The ranges of record b lie inside the block it names, whichever of its two
\* ranges is taken along which tangential axis of the face.
RecordInside(c, b) ==
    /\ b[2] \in 1..Len(c)
    /\ ValidFace(b[3])
    /\ b[4] >= 1 /\ b[6] >= 1
    /\ LET shape == c[b[2]]
           t == CASE b[3] \in {1, 2} -> <<shape[1], shape[2]>>
                  [] b[3] \in {3, 4} -> <<shape[2], shape[3]>>
                  [] b[3] \in {5, 6} -> <<shape[1], shape[3]>>
           lim1 == IF b[3] \in {5, 6} THEN (IF t[1] < t[2] THEN t[1] ELSE t[2]) ELSE t[1]
           lim2 == IF b[3] \in {5, 6} THEN lim1 ELSE t[2]
       IN  b[5] <= lim1 /\ b[7] <= lim2

\* C1: after consume, on a grid with extents >= 1 and records whose ranges lie
\* inside the named block, every node id in the connectivity of an element is
\* the id of a node of the node list.
C1_NodeIdsExist ==
    (pc = "done" /\ \A r \in 1..Len(boundaries) : RecordInside(coords, boundaries[r]))
        => \A p \in 1..Len(elements) : Connectivity(elements[p]) \subseteq NodeIds

\* C2: for a call on block b at an in-bounds (i, j, k), the id lies in block
\* b's range [1 + nodes of blocks 0..b-1, nodes of blocks 0..b], no other
\* in-bounds position of the block has that id, the ids of the block's
\* in-bounds positions are exactly that range, and block b+1 starts one past it.
C2_NodeIdBijection ==
    (ret[1] = "ok" /\ call[1] \in 0..(Len(coords) - 1)
        /\ <<call[2], call[3], call[4]>> \in InBounds(coords, call[1]))
    => LET b == call[1]
           lo == BlockLo(coords, b)
           hi == BlockHi(coords, b)
       IN  /\ ret[2] \in lo..hi
           /\ \A q \in InBounds(coords, b) :
                 q # <<call[2], call[3], call[4]>>
                    => P3dNodeId(coords, b, q[1], q[2], q[3]) # ret[2]
           /\ {P3dNodeId(coords, b, q[1], q[2], q[3]) : q \in InBounds(coords, b)} = lo..hi
           /\ b + 1 < Len(coords) => P3dNodeId(coords, b + 1, 0, 0, 0) = hi + 1

C2_Witness ==
    /\ ret[1] = "ok"
    /\ Len(coords) = 2
    /\ call[1] = 1
    /\ coords[2][2] # coords[2][3]
    /\ <<call[2], call[3], call[4]>> \in InBounds(coords, 1)
    /\ call[2] >= 1 /\ call[3] >= 1 /\ call[4] >= 1

\* C3: at every point of a conversion the element at position p has id p, the
\* counter equals the number of elements, no quadrilateral precedes a
\* hexahedron, hexahedra come in block order (first node id increasing) and
\* quadrilaterals in record order (group id non-decreasing).
C3_ElementIdsDense ==
    /\ element_id = Len(elements)
    /\ \A p \in 1..Len(elements) : elements[p][1] = p
    /\ \A p, q \in 1..Len(elements) :
          p < q =>
            /\ ~(elements[p][2] = 3 /\ elements[q][2] = 5)
            /\ (elements[p][2] = 5 /\ elements[q][2] = 5) => elements[p][6] < elements[q][6]
            /\ (elements[p][2] = 3 /\ elements[q][2] = 3) => elements[p][4] <= elements[q][4]

C3_Witness ==
    /\ pc = "done"
    /\ Len(coords) = 2
    /\ Len(boundaries) = 2
    /\ \E p, q, r \in 1..Len(elements) :
          /\ elements[p][2] = 5
          /\ elements[q][2] = 3 /\ elements[q][4] = 2
          /\ elements[r][2] = 3 /\ elements[r][4] = 3
    /\ HexesBefore(coords, 1) >= 1 /\ HexesBefore(coords, 2) > HexesBefore(coords, 1)

\* C4: after consume the group table holds nrecs + 1 groups, (3, 1, 'mesh')
\* first, then for the r-th record the group (2, r + 1, name); at every point
\* each group id is greater than every id allocated before it.
C4_GroupTable ==
    /\ pc = "done" =>
          /\ Len(groups) = nrecs + 1
          /\ groups[1] = <<3, 1, "mesh">>
          /\ \A p \in 2..Len(groups) :
                groups[p] = <<2, p, GroupName(p, boundaries[p - 1][1])>>
    /\ \A p, q \in 1..Len(groups) : p < q => groups[p][2] < groups[q][2]

C4_Witness ==
    /\ pc = "done"
    /\ nrecs = 2
    /\ Len(groups) = 3

\* The quadrilaterals of the element list, in order.
Quads == SelectSeq(elements, LAMBDA el : el[2] = 3)

\* The node id of the point of face f of block n at (u, v) on the face's two
\* tangential axes, in the order the table of faces lists them: i then j for
\* faces 1 and 2, j then k for faces 3 and 4, i then k for faces 5 and 6.
FacePoint(c, n, f, u, v) ==
    LET shape == ListAt(c, n)
    IN  CASE f = 1 -> P3dNodeId(c, n, u, v, 0)
          [] f = 2 -> P3dNodeId(c, n, u, v, shape[3] - 1)
          [] f = 3 -> P3dNodeId(c, n, 0, u, v)
          [] f = 4 -> P3dNodeId(c, n, shape[1] - 1, u, v)
          [] f = 5 -> P3dNodeId(c, n, u, 0, v)
          [] f = 6 -> P3dNodeId(c, n, u, shape[2] - 1, v)

\* The cells (a, b) of a record: a in [s1-1, e1-1), b in [s2-1, e2-1).
Cells(b) == {<<x, y>> : x \in (b[4] - 1)..(b[5] - 2), y \in (b[6] - 1)..(b[7] - 2)}

\* The quadrilaterals are, one for one, the connectivities Q[cell] of the
\* cells in the domain of Q.
OnePerCell(Q) ==
    /\ Len(Quads) = Cardinality(DOMAIN Q)
    /\ \A x \in {Q[cl] : cl \in DOMAIN Q} \cup {SubSeq(Quads[p], 6, 9) : p \in 1..Len(Quads)} :
          Cardinality({p \in 1..Len(Quads) : SubSeq(Quads[p], 6, 9) = x})
             = Cardinality({cl \in DOMAIN Q : Q[cl] = x})

\* The single record of the map file, naming an existing block and a face
\* 1..6, has been turned into quadrilaterals.
FaceRecordDone ==
    /\ pc = "done"
    /\ Len(boundaries) = 1
    /\ boundaries[1][2] \in 1..Len(coords)
    /\ ValidFace(boundaries[1][3])

\* C5 as claimed, on the records whose ranges lie inside the named block: for
\* every face 1..6 one quadrilateral per cell (a, b), a from the first range
\* along the face's first tangential axis, b from the second range along its
\* second, corners (a,b), (a+1,b), (a+1,b+1), (a,b+1).
C5_QuadsAsClaimed ==
    (FaceRecordDone /\ RecordInside(coords, boundaries[1])) =>
        LET b == boundaries[1]
            n == b[2] - 1
            Q == [cl \in Cells(b) |->
                    <<FacePoint(coords, n, b[3], cl[1], cl[2]),
                      FacePoint(coords, n, b[3], cl[1] + 1, cl[2]),
                      FacePoint(coords, n, b[3], cl[1] + 1, cl[2] + 1),
                      FacePoint(coords, n, b[3], cl[1], cl[2] + 1)>>]
        IN  OnePerCell(Q)

\* C5 amended: as claimed for faces 1..4; for faces 5 and 6 the first range
\* runs along k and the second along i, and the corners of cell (a, b) are
\* (i,k) = (b,a), (b+1,a), (b+1,a+1), (b,a+1); every quadrilateral carries the
\* record's group id 2.
C5_QuadsPerCell ==
    FaceRecordDone =>
        LET b == boundaries[1]
            n == b[2] - 1
            Q == [cl \in Cells(b) |->
                    IF b[3] \in {5, 6}
                    THEN <<FacePoint(coords, n, b[3], cl[2], cl[1]),
                           FacePoint(coords, n, b[3], cl[2] + 1, cl[1]),
                           FacePoint(coords, n, b[3], cl[2] + 1, cl[1] + 1),
                           FacePoint(coords, n, b[3], cl[2], cl[1] + 1)>>
                    ELSE <<FacePoint(coords, n, b[3], cl[1], cl[2]),
                           FacePoint(coords, n, b[3], cl[1] + 1, cl[2]),
                           FacePoint(coords, n, b[3], cl[1] + 1, cl[2] + 1),
                           FacePoint(coords, n, b[3], cl[1], cl[2] + 1)>>]
        IN  /\ OnePerCell(Q)
            /\ \A p \in 1..Len(Quads) : Quads[p][4] = 2

C5_Witness ==
    /\ FaceRecordDone
    /\ boundaries[1][2] = 1
    /\ boundaries[1][3] = 5
    /\ <<boundaries[1][4], boundaries[1][5], boundaries[1][6], boundaries[1][7]>> = <<1, 3, 1, 2>>
    /\ coords[1] = <<2, 2, 3>>
    /\ Len(Quads) = 2

\* C6: for every consumed block b with shape (I, J, K) the element list holds
\* (J-1)*(K-1) hexahedra of it, one per (j, k) with 1 <= j < J, 1 <= k < K,
\* tagged with group 1, with node ids of (0,j-1,k-1), (0,j,k-1), (0,j,k),
\* (0,j-1,k), (1,j-1,k-1), (1,j,k-1), (1,j,k), (1,j-1,k); and no other hexahedra.
C6_HexahedraPerBlock ==
    /\ Cardinality({p \in 1..Len(elements) : elements[p][2] = 5}) = HexesBefore(coords, blkn)
    /\ \A b \in 0..(blkn - 1) :
          LET J == coords[b + 1][2]
              K == coords[b + 1][3]
          IN  \A j \in 1..(J - 1), k \in 1..(K - 1) :
                 LET el == elements[HexesBefore(coords, b) + (j - 1) * (K - 1) + k]
                 IN  /\ el[2] = 5
                     /\ el[4] = 1
                     /\ SubSeq(el, 6, Len(el)) =
                           <<P3dNodeId(coords, b, 0, j - 1, k - 1), P3dNodeId(coords, b, 0, j, k - 1),
                             P3dNodeId(coords, b, 0, j, k),         P3dNodeId(coords, b, 0, j - 1, k),
                             P3dNodeId(coords, b, 1, j - 1, k - 1), P3dNodeId(coords, b, 1, j, k - 1),
                             P3dNodeId(coords, b, 1, j, k),         P3dNodeId(coords, b, 1, j - 1, k)>>

C6_Witness ==
    /\ blkn = Len(coords)
    /\ coords[1] = <<3, 3, 2>>
    /\ Cardinality({p \in 1..Len(elements) : elements[p][2] = 5}) = 2

\* C7: a call of _gen_boundary on a record naming an existing block that fails
\* with the invalid-face error leaves the group table, the element list and
\* the element-id counter as they were.
C7_InvalidFaceNoMutation ==
    [][(pc = "bdry" /\ err' = "ValueError"
           /\ boundaries'[Len(boundaries')][2] \in 1..Len(coords))
          => (groups' = groups /\ elements' = elements /\ element_id' = element_id)]_vars

\* C8: every record whose block number is outside 1..nblocks (here with a
\* face id in 1..6 and at least one cell in its ranges) makes consume fail
\* with an out-of-range error and emits no quadrilateral.
C8_BlockNumberChecked ==
    \A r \in 1..Len(boundaries) :
        (boundaries[r][2] \notin 1..Len(coords) /\ ValidFace(boundaries[r][3])
            /\ Cells(boundaries[r]) # {})
            => (pc = "error" /\ err = "IndexError" /\ Len(Quads) = 0)

\* C9: every mesh main has written was complete (consume had run every block
\* and every record without raising), one mesh at most per file, and when main
\* is aborted by a failure nothing has been written for the current file.
C9_SaveOnlyComplete ==
    /\ \A p \in 1..Len(written) : written[p].complete
    /\ \A p, q \in 1..Len(written) : p < q => written[p].file < written[q].file
    /\ \A p \in 1..Len(written) :
          written[p].file < fidx \/ (written[p].file = fidx /\ mainpc = "exit")
    /\ mainpc = "aborted" => \A p \in 1..Len(written) : written[p].file # fidx

C9_Witness ==
    /\ mainpc = "aborted"
    /\ err = "ValueError"
    /\ fidx = 2
    /\ Len(written) = 1
    /\ blkn = 2

\* C10: on a multi-block grid every node id of a hexahedron generated for
\* block b, and of a quadrilateral of an in-range record naming block b, lies
\* in block b's own id range.
C10_BlockLocal ==
    Len(coords) > 1 =>
        /\ \A b \in 0..(blkn - 1) :
              \A p \in (HexesBefore(coords, b) + 1)..HexesBefore(coords, b + 1) :
                 Connectivity(elements[p]) \subseteq BlockLo(coords, b)..BlockHi(coords, b)
        /\ \A r \in 1..Len(boundaries) :
              RecordInside(coords, boundaries[r]) =>
                 \A p \in 1..Len(elements) :
                    (elements[p][2] = 3 /\ elements[p][4] = r + 1) =>
                       Connectivity(elements[p]) \subseteq
                          BlockLo(coords, boundaries[r][2] - 1)..BlockHi(coords, boundaries[r][2] - 1)

====
